---- MODULE Spec2Model ----
(***************************************************************************)
(* Model of src/sandbox/wrapper.ts: SandboxWrapper.wrapCommand and         *)
(* wrapWithBwrap, which rewrite a command into a bubblewrap invocation.    *)
(*                                                                         *)
(* A JavaScript string is a sequence of chunks.  The characters "/", "."   *)
(* and " " are always chunks of their own; any other chunk stands for a    *)
(* maximal run of other characters ("usr", "--bind").  Two strings are     *)
(* equal exactly when their chunk sequences are equal.                     *)
(* An optional value (x?: T) is a record [defined, value].                 *)
(***************************************************************************)
EXTENDS Integers, Sequences, FiniteSets, TLC

VARIABLES config, requirements, existing, processCwd, call, result

vars == <<config, requirements, existing, processCwd, call, result>>

----------------------------------------------------------------------------
(* Bounds of the model *)

MaxAllow == 2

MaxArgs == 2

----------------------------------------------------------------------------
(* Strings and optional values *)

None == [defined |-> FALSE, value |-> <<>>]

Some(v) == [defined |-> TRUE, value |-> v]

\* x ?? d
OrElse(x, d) == IF x.defined THEN x.value ELSE d

SLASH == "/"

DOT == "."

SPACE == " "

SeqsUpTo(S, n) == UNION {[1..k -> S] : k \in 0..n}

\* a ++ every sequence of a sequence of sequences
RECURSIVE Flatten(_)
Flatten(ss) == IF ss = <<>> THEN <<>> ELSE Head(ss) \o Flatten(Tail(ss))

\* The elements of a sequence, as a set
Range(s) == {s[i] : i \in 1..Len(s)}

\* Array.from(new Set(xs)): first occurrences, in insertion order
RECURSIVE uniq(_, _)
uniq(xs, seen) ==
  IF xs = <<>> THEN <<>>
  ELSE IF Head(xs) \in seen THEN uniq(Tail(xs), seen)
       ELSE <<Head(xs)>> \o uniq(Tail(xs), seen \cup {Head(xs)})

\* new Set keeping every element, repeated ones too
NewSet_keepAll(xs) == xs

NewSet(xs) == uniq(xs, {})

\* Set.prototype.delete for every element of dels
SetDeleteAll(xs, dels) == SelectSeq(xs, LAMBDA x : x \notin Range(dels))

----------------------------------------------------------------------------
(* node:path (posix) and String.prototype.trim *)

RECURSIVE trimStart(_)
trimStart(s) ==
  IF s # <<>> /\ Head(s) = SPACE THEN trimStart(Tail(s)) ELSE s

RECURSIVE trimEnd(_)
trimEnd(s) ==
  IF s # <<>> /\ s[Len(s)] = SPACE THEN trimEnd(SubSeq(s, 1, Len(s) - 1)) ELSE s

trim(s) == trimEnd(trimStart(s))

isAbsolute(p) == Len(p) > 0 /\ p[1] = SLASH

\* The segments of a string between its "/" characters
RECURSIVE splitSlash(_, _)
splitSlash(s, cur) ==
  IF s = <<>> THEN <<cur>>
  ELSE IF Head(s) = SLASH THEN <<cur>> \o splitSlash(Tail(s), <<>>)
       ELSE splitSlash(Tail(s), Append(cur, Head(s)))

\* normalizeString(path, allowAboveRoot = false): drops empty and "."
\* segments, and lets ".." remove the segment before it
RECURSIVE normalizeSegs(_, _)
normalizeSegs(segs, res) ==
  IF segs = <<>> THEN res
  ELSE LET g == Head(segs) IN
       IF g = <<>> \/ g = <<DOT>> THEN normalizeSegs(Tail(segs), res)
       ELSE IF g = <<DOT, DOT>>
            THEN normalizeSegs(Tail(segs),
                   IF res = <<>> THEN res ELSE SubSeq(res, 1, Len(res) - 1))
            ELSE normalizeSegs(Tail(segs), Append(res, g))

RECURSIVE joinSlash(_)
joinSlash(segs) ==
  IF segs = <<>> THEN <<>>
  ELSE IF Len(segs) = 1 THEN Head(segs)
       ELSE Head(segs) \o <<SLASH>> \o joinSlash(Tail(segs))

\* The right-to-left scan of path.resolve: prepend arguments until one is
\* absolute; empty arguments are skipped
RECURSIVE resolveScan(_, _)
resolveScan(paths, acc) ==
  IF paths = <<>> THEN acc
  ELSE LET p == paths[Len(paths)]
           rest == SubSeq(paths, 1, Len(paths) - 1)
       IN IF p = <<>> THEN resolveScan(rest, acc)
          ELSE IF isAbsolute(p) THEN p \o <<SLASH>> \o acc
               ELSE resolveScan(rest, p \o <<SLASH>> \o acc)

\* path.resolve(...paths) in a process whose working directory is pcwd
resolve(paths, pcwd) ==
  LET scanned == resolveScan(paths, <<>>)
      full == IF isAbsolute(scanned) THEN scanned ELSE pcwd \o <<SLASH>> \o scanned
  IN <<SLASH>> \o joinSlash(normalizeSegs(splitSlash(full, <<>>), <<>>))

----------------------------------------------------------------------------
(* Literals of wrapper.ts *)

BWRAP == <<"bwrap">>

DIE_WITH_PARENT == <<"--die-with-parent">>

DEV_FLAG == <<"--dev">>

DEV_PATH == <<SLASH, "dev">>

PROC_FLAG == <<"--proc">>

PROC_PATH == <<SLASH, "proc">>

UNSHARE_NET == <<"--unshare-net">>

RO_BIND == <<"--ro-bind">>

BIND == <<"--bind">>

CHDIR == <<"--chdir">>

SEP == <<"--">>

SYSTEM_DIRS ==
  << <<SLASH, "usr">>, <<SLASH, "bin">>, <<SLASH, "lib">>,
     <<SLASH, "lib64">>, <<SLASH, "sbin">>, <<SLASH, "etc">> >>

----------------------------------------------------------------------------
(* SandboxWrapper *)

\* existsSync without the check: every directory is taken to exist
existsSync_always(dir, fs) == TRUE

\* existsSync(dir) on a host whose existing directories are fs
existsSync(dir, fs) == dir \in fs

\* getRequirementPaths with the three lists in the opposite order
getRequirementPaths_reversed(req) ==
  req.runtimePaths \o req.binaryPaths \o req.authPaths

getRequirementPaths(req) ==
  req.authPaths \o req.binaryPaths \o req.runtimePaths

keepPath(path) == Len(trim(path)) > 0

\* resolveEntry resolving a relative entry against the process directory
resolveEntry_ambient(path, cwd, pcwd) ==
  IF isAbsolute(path) THEN path ELSE resolve(<<path>>, pcwd)

resolveEntry(path, cwd, pcwd) ==
  IF isAbsolute(path) THEN path ELSE resolve(<<cwd, path>>, pcwd)

normalizePaths(paths, cwd, pcwd) ==
  LET kept == SelectSeq(paths, keepPath)
      resolved == [i \in 1..Len(kept) |-> resolveEntry(kept[i], cwd, pcwd)]
  IN NewSet(resolved)

\* workDirOf ignoring options.cwd
workDirOf_ambient(options, pcwd) == resolve(<<pcwd>>, pcwd)

workDirOf(options, pcwd) == resolve(<<OrElse(options.cwd, pcwd)>>, pcwd)

\* process.cwd() is read when options.cwd is unset, and by resolve when
\* options.cwd is not absolute
readsProcessCwd(options) ==
  ~options.cwd.defined \/ ~isAbsolute(options.cwd.value)

seedArgs == <<DIE_WITH_PARENT, DEV_FLAG, DEV_PATH, PROC_FLAG, PROC_PATH>>

\* networkArgs unsharing the network unless network is true
networkArgs_default(cfg) == IF cfg.network # "true" THEN <<UNSHARE_NET>> ELSE <<>>

networkArgs(cfg) == IF cfg.network = "false" THEN <<UNSHARE_NET>> ELSE <<>>

\* systemBinds binding the system directories writable
systemBinds_writable(fs) ==
  Flatten([i \in 1..Len(SYSTEM_DIRS) |->
             IF existsSync(SYSTEM_DIRS[i], fs)
             THEN <<BIND, SYSTEM_DIRS[i], SYSTEM_DIRS[i]>>
             ELSE <<>>])

systemBinds(fs) ==
  Flatten([i \in 1..Len(SYSTEM_DIRS) |->
             IF existsSync(SYSTEM_DIRS[i], fs)
             THEN <<RO_BIND, SYSTEM_DIRS[i], SYSTEM_DIRS[i]>>
             ELSE <<>>])

readWritePathsOf(cfg, workDir, pcwd) ==
  NewSet(<<workDir>> \o normalizePaths(OrElse(cfg.allowPaths, <<>>), workDir, pcwd))

readOnlyCandidates(cfg, req, workDir, pcwd) ==
  NewSet(normalizePaths(OrElse(cfg.readOnlyPaths, <<>>), workDir, pcwd)
         \o normalizePaths(getRequirementPaths(req), workDir, pcwd))

\* readOnlyPathsOf without the deletion of the read-write paths
readOnlyPathsOf_noDelete(cfg, req, workDir, pcwd) ==
  readOnlyCandidates(cfg, req, workDir, pcwd)

readOnlyPathsOf(cfg, req, workDir, pcwd) ==
  SetDeleteAll(readOnlyCandidates(cfg, req, workDir, pcwd),
               readWritePathsOf(cfg, workDir, pcwd))

bindArgs(flag, paths) ==
  Flatten([i \in 1..Len(paths) |-> <<flag, paths[i], paths[i]>>])

\* tailArgs without the separator
tailArgs_noSeparator(workDir, command, args) == <<CHDIR, workDir, command>> \o args

tailArgs(workDir, command, args) == <<CHDIR, workDir, SEP, command>> \o args

wrapWithBwrap(cfg, req, command, args, options, fs, pcwd) ==
  LET workDir == workDirOf(options, pcwd)
      bwrapArgs ==
        seedArgs
        \o networkArgs(cfg)
        \o systemBinds(fs)
        \o bindArgs(BIND, readWritePathsOf(cfg, workDir, pcwd))
        \o bindArgs(RO_BIND, readOnlyPathsOf(cfg, req, workDir, pcwd))
        \o tailArgs(workDir, command, args)
  IN [command |-> BWRAP, args |-> bwrapArgs]

passThrough(command, args) == [command |-> command, args |-> args]

\* gateOff asking for both conditions
gateOff_both(cfg) == cfg.enabled = "false" /\ cfg.mode = "off"

gateOff(cfg) == cfg.enabled = "false" \/ cfg.mode = "off"

modeOf(cfg) == IF cfg.mode = "undefined" THEN "auto" ELSE cfg.mode

\* gateUnsupported taking 'auto' for an unsupported mode
gateUnsupported_auto(cfg) == modeOf(cfg) # "bwrap"

gateUnsupported(cfg) == modeOf(cfg) # "auto" /\ modeOf(cfg) # "bwrap"

wrapCommand(cfg, req, command, args, options, fs, pcwd) ==
  IF gateOff(cfg) THEN passThrough(command, args)
  ELSE IF gateUnsupported(cfg) THEN passThrough(command, args)
       ELSE wrapWithBwrap(cfg, req, command, args, options, fs, pcwd)

----------------------------------------------------------------------------
(* Inputs of the model *)

PROJ == <<SLASH, "proj">>

PROJ_SLASH == <<SLASH, "proj", SLASH>>

HOME_U == <<SLASH, "home", SLASH, "u">>

SUB == <<"sub">>

OUT == <<"out">>

DOT_OUT == <<DOT, SLASH, "out">>

HERE == <<DOT>>

BLANK == <<SPACE>>

CREDS == <<SLASH, "home", SLASH, "u", SLASH, DOT, "creds">>

UP_RT == <<DOT, DOT, SLASH, "rt">>

USR == <<SLASH, "usr">>

LIB64 == <<SLASH, "lib64">>

ECHO == <<"echo">>

HI == <<"hi">>

SystemDirSet == Range(SYSTEM_DIRS)

EnabledValues == {"true", "false", "undefined"}

ModeValues == {"undefined", "off", "auto", "bwrap", "sandbox-exec"}

NetworkValues == {"true", "false", "undefined"}

AllowPool == {OUT, USR}

ReadOnlyLists == {<<PROJ_SLASH>>, <<HERE, DOT_OUT>>, <<OUT, BLANK, DOT_OUT>>}

ArgPool == {UNSHARE_NET, SEP}

Req(a, b, r) == [authPaths |-> a, binaryPaths |-> b, runtimePaths |-> r]

ReqPool ==
  { Req(<<>>, <<>>, <<>>),
    Req(<<BLANK>>, <<LIB64>>, <<UP_RT>>),
    Req(<<>>, <<>>, <<PROJ_SLASH>>),
    Req(<<CREDS>>, <<CREDS, USR>>, <<OUT, <<>> >>) }

\* Policies that differ in the fields the gate reads
GateConfigs ==
  [enabled : EnabledValues, mode : ModeValues, network : NetworkValues,
   allowPaths : {Some(<<OUT>>)}, readOnlyPaths : {None}]

\* Enabled policies that differ in their path lists
PathConfigs ==
  [enabled : {"undefined"}, mode : {"auto"}, network : {"false"},
   allowPaths : {Some(l) : l \in SeqsUpTo(AllowPool, MaxAllow)},
   readOnlyPaths : {Some(l) : l \in ReadOnlyLists}]

\* Enabled policies run on every host layout
HostConfigs ==
  [enabled : {"true"}, mode : {"bwrap"}, network : {"true"},
   allowPaths : {None}, readOnlyPaths : {Some(<<LIB64>>)}]

NoLib64 == SystemDirSet \ {LIB64}

ProcessCwds == {PROJ, HOME_U}

CwdOptions == {None, Some(PROJ), Some(PROJ_SLASH), Some(SUB)}

Invocation(c, a, o) == [command |-> c, args |-> a, options |-> [cwd |-> o]]

Calls ==
  {Invocation(ECHO, a, Some(PROJ)) : a \in SeqsUpTo(ArgPool, MaxArgs)}
  \cup {Invocation(ECHO, <<HI>>, o) : o \in CwdOptions}
  \cup {Invocation(BWRAP, <<HI>>, Some(PROJ))}

\* call.ambient: the process working directory the call read, if it read it
NoCall ==
  [made |-> FALSE, command |-> <<>>, args |-> <<>>,
   options |-> [cwd |-> None], ambient |-> None]

NoResult == [command |-> <<>>, args |-> <<>>]

----------------------------------------------------------------------------
(* The state machine: a constructed SandboxWrapper on a host *)

Init ==
  /\ \/ /\ config \in GateConfigs
        /\ requirements = Req(<<CREDS>>, <<>>, <<>>)
        /\ existing = SystemDirSet
     \/ /\ config \in PathConfigs
        /\ requirements \in ReqPool
        /\ existing = NoLib64
     \/ /\ config \in HostConfigs
        /\ requirements = Req(<<BLANK>>, <<LIB64>>, <<UP_RT>>)
        /\ existing \in SUBSET SystemDirSet
  /\ processCwd \in ProcessCwds
  /\ call = NoCall
  /\ result = NoResult

\* wrapper.wrapCommand(command, args, options)
WrapCommand ==
  \E c \in Calls :
    /\ call' = [made |-> TRUE, command |-> c.command, args |-> c.args,
                options |-> c.options,
                ambient |-> IF readsProcessCwd(c.options)
                            THEN Some(processCwd) ELSE None]
    /\ result' = wrapCommand(config, requirements, c.command, c.args,
                             c.options, existing, processCwd)
    /\ UNCHANGED <<config, requirements, existing, processCwd>>

\* The process changes its working directory between calls
Chdir ==
  \E d \in ProcessCwds \ {processCwd} :
    /\ processCwd' = d
    /\ UNCHANGED <<config, requirements, existing, call, result>>

Next == WrapCommand \/ Chdir

Spec == Init /\ [][Next]_vars

----------------------------------------------------------------------------
(* Reading a returned WrappedCommand *)

\* The policy lets wrapCommand reach wrapWithBwrap, and a call was made
Wrapped ==
  /\ call.made
  /\ config.enabled # "false"
  /\ config.mode \in {"undefined", "auto", "bwrap"}

Unchanged == result = [command |-> call.command, args |-> call.args]

Positions(v, x) == {i \in 1..Len(v) : v[i] = x}

Min(S) == CHOOSE i \in S : \A j \in S : i <= j

Count(v, x) == Cardinality(Positions(v, x))

\* The backend options: everything before the first "--"
OptionPart(v) ==
  IF Positions(v, SEP) = {} THEN v ELSE SubSeq(v, 1, Min(Positions(v, SEP)) - 1)

\* The operand of every flag f of the backend options whose two operands agree
Operands(v, f) ==
  LET o == OptionPart(v)
  IN {o[i + 1] : i \in {j \in Positions(o, f) : j + 2 <= Len(o) /\ o[j + 1] = o[j + 2]}}

FirstBind(v) ==
  LET o == OptionPart(v)
  IN IF Positions(o, BIND) = {} THEN Len(o) + 1 ELSE Min(Positions(o, BIND))

\* Paths bound writable: "--bind p p"
RwEmitted(v) == Operands(v, BIND)

\* Paths bound read-only: "--ro-bind p p"
RoEmitted(v) == Operands(v, RO_BIND)

\* Read-only binds of the system-directory section, before the first "--bind"
SystemRoEmitted(v) ==
  LET o == OptionPart(v)
  IN {o[i + 1] : i \in {j \in Positions(o, RO_BIND) : j < FirstBind(v)}}

\* Read-only binds of the policy and the requirements, after the first "--bind"
PolicyRoEmitted(v) ==
  LET o == OptionPart(v)
  IN {o[i + 1] : i \in {j \in Positions(o, RO_BIND) : j > FirstBind(v)}}

\* The operand of "--chdir"
ChdirTarget(v) ==
  LET o == OptionPart(v)
  IN IF Positions(o, CHDIR) = {} \/ Min(Positions(o, CHDIR)) = Len(o) THEN <<>>
     ELSE o[Min(Positions(o, CHDIR)) + 1]

AllowEntries == OrElse(config.allowPaths, <<>>)

ReadOnlyEntries ==
  OrElse(config.readOnlyPaths, <<>>) \o getRequirementPaths(requirements)

\* The process working directory at the time of the call
CallPcwd == OrElse(call.ambient, processCwd)

\* options.cwd made absolute
CallWorkDir == resolve(<<OrElse(call.options.cwd, CallPcwd)>>, CallPcwd)

NormalizedAllow == Range(normalizePaths(AllowEntries, CallWorkDir, CallPcwd))

NormalizedReadOnly == Range(normalizePaths(ReadOnlyEntries, CallWorkDir, CallPcwd))

----------------------------------------------------------------------------
(* C1 *)

\* C1: with enabled = false or mode = 'off', whatever the other policy
\* fields are, wrapCommand returns exactly {command, args}.
C1_DisabledIsIdentity ==
  (call.made /\ (config.enabled = "false" \/ config.mode = "off")) => Unchanged

C1_Witness ==
  /\ call.made
  /\ config.enabled = "false"
  /\ config.mode = "bwrap"
  /\ call.args = <<HI>>
  /\ result = [command |-> ECHO, args |-> <<HI>>]

(* C2 *)

UnsupportedMode == config.mode \notin {"undefined", "auto", "bwrap"}

\* C2 as stated: a mode other than 'auto' and 'bwrap' gives {command, args}
\* unchanged; an enabled policy with mode 'auto', 'bwrap' or absent returns
\* the command 'bwrap', which is not the original command.
C2_Original ==
  /\ (call.made /\ UnsupportedMode) => Unchanged
  /\ Wrapped => (result.command = BWRAP /\ result.command # call.command)

\* C2 amended: a mode other than 'auto' and 'bwrap' gives {command, args}
\* unchanged; an enabled policy with mode 'auto', 'bwrap' or absent returns
\* the command 'bwrap' and not the pair {command, args}; the returned command
\* differs from the original command unless the original is 'bwrap' itself.
C2_Amended ==
  /\ (call.made /\ UnsupportedMode) => Unchanged
  /\ Wrapped => /\ result.command = BWRAP
                /\ ~Unchanged
                /\ (call.command # BWRAP => result.command # call.command)

C2_Witness ==
  /\ Wrapped
  /\ config.mode = "undefined"
  /\ call.command = BWRAP
  /\ result.command = BWRAP
  /\ Len(result.args) > Len(call.args)

(* C3 *)

\* C3: the emitted read-write and read-only sets are disjoint, and a path
\* that is, after normalization, both in allowPaths and in readOnlyPaths or a
\* requirement list is bound with '--bind' and never with a policy
\* '--ro-bind'.
C3_ReadWriteWins ==
  Wrapped =>
    /\ RwEmitted(result.args) \cap PolicyRoEmitted(result.args) = {}
    /\ \A p \in NormalizedAllow \cap NormalizedReadOnly :
         /\ p \in RwEmitted(result.args)
         /\ p \notin PolicyRoEmitted(result.args)

C3_Witness ==
  /\ Wrapped
  /\ NormalizedAllow \cap NormalizedReadOnly # {}
  /\ PolicyRoEmitted(result.args) # {}
  /\ Cardinality(RwEmitted(result.args)) >= 2

(* C4 *)

\* C4: the working directory is bound writable, and no read-only bind
\* designates the working directory, in any spelling of it.
C4_WorkDirNeverReadOnly ==
  Wrapped =>
    /\ CallWorkDir \in RwEmitted(result.args)
    /\ \A p \in RoEmitted(result.args) : resolve(<<p>>, CallPcwd) # CallWorkDir

(* C5 *)

\* C5 as stated: no system directory is ever bound writable.
C5_Original ==
  Wrapped => RwEmitted(result.args) \cap SystemDirSet = {}

\* C5 amended: every existing system directory gets a read-only bind in the
\* system section, and a system directory is bound writable only when it is
\* the working directory or an entry of allowPaths.
C5_Amended ==
  Wrapped =>
    \A d \in SystemDirSet :
      /\ d \in existing => d \in SystemRoEmitted(result.args)
      /\ d \in RwEmitted(result.args) => (d = CallWorkDir \/ d \in NormalizedAllow)

C5_Witness ==
  /\ Wrapped
  /\ USR \in existing
  /\ USR \in SystemRoEmitted(result.args)
  /\ USR \in RwEmitted(result.args)

(* C6 *)

\* C6: the wrapped argument vector ends with '--', the original command and
\* all original args in their order, whatever strings they are, and the
\* caller's args are as the caller passed them.
C6_TrailingCommand ==
  Wrapped =>
    LET v == result.args
        n == Len(call.args)
    IN /\ Len(v) >= n + 2
       /\ SubSeq(v, Len(v) - n - 1, Len(v)) = <<SEP, call.command>> \o call.args

C6_Witness ==
  /\ Wrapped
  /\ call.args = <<SEP, UNSHARE_NET>>
  /\ Len(result.args) > 4
  /\ result.args[Len(result.args) - 3] = SEP
  /\ result.args[Len(result.args) - 2] = ECHO

(* C7 *)

ExpectedUnshare == IF config.network = "false" THEN 1 ELSE 0

\* C7 as stated: for every command and args the wrapped argument vector
\* contains '--unshare-net' exactly once when network is false, and zero
\* times when network is true or absent.
C7_Original ==
  Wrapped => Count(result.args, UNSHARE_NET) = ExpectedUnshare

\* C7 amended: the backend options, before the '--' separator, contain
\* '--unshare-net' exactly once when network is false and zero times when it
\* is true or absent; any further occurrence is one of the caller's own
\* command and args after the separator.
C7_Amended ==
  Wrapped =>
    /\ Count(OptionPart(result.args), UNSHARE_NET) = ExpectedUnshare
    /\ Count(result.args, UNSHARE_NET)
         = ExpectedUnshare + Count(<<call.command>> \o call.args, UNSHARE_NET)

C7_Witness ==
  /\ Wrapped
  /\ config.network = "false"
  /\ call.args = <<UNSHARE_NET>>
  /\ Count(result.args, UNSHARE_NET) = 2

(* C8 *)

\* C8 as stated: for all policies and requirements, '--ro-bind d d' is in the
\* wrapped argument vector exactly when the system directory d exists.
C8_Original ==
  Wrapped => \A d \in SystemDirSet : (d \in RoEmitted(result.args)) <=> (d \in existing)

\* C8 amended: the system section holds '--ro-bind d d' exactly when d
\* exists; a system directory that does not exist is bound read-only only
\* when readOnlyPaths or a requirement list names it.
C8_Amended ==
  Wrapped =>
    \A d \in SystemDirSet :
      /\ (d \in SystemRoEmitted(result.args)) <=> (d \in existing)
      /\ (d \in RoEmitted(result.args) /\ d \notin existing) => d \in NormalizedReadOnly

C8_Witness ==
  /\ Wrapped
  /\ LIB64 \notin existing
  /\ USR \in existing
  /\ LIB64 \notin SystemRoEmitted(result.args)
  /\ LIB64 \in PolicyRoEmitted(result.args)
  /\ USR \in SystemRoEmitted(result.args)

(* C9 *)

IsBlank(e) == trim(e) = <<>>

RelativeEntries(entries) ==
  {e \in Range(entries) : ~IsBlank(e) /\ ~isAbsolute(e)}

AbsoluteEntries(entries) == {e \in Range(entries) : isAbsolute(e)}

AgainstWorkDir(e) == resolve(<<CallWorkDir, e>>, CallPcwd)

\* C9: every bind path is absolute; every relative entry of allowPaths,
\* readOnlyPaths and the requirement lists is bound as resolved against
\* options.cwd made absolute, not against the process working directory;
\* blank entries give no bind.
C9_ResolvedAgainstCwd ==
  Wrapped =>
    LET rw == RwEmitted(result.args)
        ro == PolicyRoEmitted(result.args)
    IN /\ \A p \in rw \cup RoEmitted(result.args) : isAbsolute(p)
       /\ \A e \in RelativeEntries(AllowEntries) : AgainstWorkDir(e) \in rw
       /\ \A e \in RelativeEntries(ReadOnlyEntries) : AgainstWorkDir(e) \in rw \cup ro
       /\ rw = {CallWorkDir} \cup AbsoluteEntries(AllowEntries)
                \cup {AgainstWorkDir(e) : e \in RelativeEntries(AllowEntries)}
       /\ ro \subseteq AbsoluteEntries(ReadOnlyEntries)
                \cup {AgainstWorkDir(e) : e \in RelativeEntries(ReadOnlyEntries)}

C9_Witness ==
  /\ Wrapped
  /\ call.options.cwd = Some(PROJ)
  /\ processCwd = HOME_U
  /\ OUT \in Range(AllowEntries)
  /\ BLANK \in Range(ReadOnlyEntries)
  /\ (PROJ \o <<SLASH>> \o OUT) \in RwEmitted(result.args)
  /\ (HOME_U \o <<SLASH>> \o OUT) \notin RwEmitted(result.args)

(* C10 *)

SameInputs ==
  /\ call.made
  /\ call'.made
  /\ call'.command = call.command
  /\ call'.args = call.args
  /\ call'.options = call.options
  /\ config' = config
  /\ requirements' = requirements
  /\ existing' = existing

\* C10 as stated: two calls with identical command, args, policy,
\* requirements and options, cwd unset or relative included, on hosts with
\* the same system directories return identical values.
C10_Original == [][SameInputs => result' = result]_vars

\* C10 amended: two such calls return identical values when, for options
\* with cwd unset or relative, the process working directory is the same
\* too.
C10_Amended == [][(SameInputs /\ call'.ambient = call.ambient) => result' = result]_vars

C10_Witness ==
  /\ Wrapped
  /\ ~call.options.cwd.defined
  /\ call.ambient = Some(HOME_U)
  /\ processCwd = PROJ
  /\ ChdirTarget(result.args) = HOME_U

(* C11 *)

RECURSIVE Reverse(_)
Reverse(xs) == IF xs = <<>> THEN <<>> ELSE Append(Reverse(Tail(xs)), Head(xs))

\* The entries of xs not in seen, each once, at its first place
RECURSIVE Fresh(_, _)
Fresh(xs, seen) ==
  IF xs = <<>> THEN <<>>
  ELSE IF Head(xs) \in seen THEN Fresh(Tail(xs), seen)
       ELSE <<Head(xs)>> \o Fresh(Tail(xs), seen \cup {Head(xs)})

\* The policy with every repeated entry removed after its first place, in the
\* order allowPaths, readOnlyPaths, and each list reversed
DedupedConfig ==
  LET a == AllowEntries
      r == OrElse(config.readOnlyPaths, <<>>)
  IN [config EXCEPT !.allowPaths = Some(Reverse(Fresh(a, {}))),
                    !.readOnlyPaths = Some(Reverse(Fresh(r, Range(a))))]

\* The requirements, likewise, in the order authPaths, binaryPaths,
\* runtimePaths after the policy's lists
DedupedRequirements ==
  LET s0 == Range(AllowEntries) \cup Range(OrElse(config.readOnlyPaths, <<>>))
      s1 == s0 \cup Range(requirements.authPaths)
      s2 == s1 \cup Range(requirements.binaryPaths)
  IN Req(Reverse(Fresh(requirements.authPaths, s0)),
         Reverse(Fresh(requirements.binaryPaths, s1)),
         Reverse(Fresh(requirements.runtimePaths, s2)))

DedupedResult ==
  wrapWithBwrap(DedupedConfig, DedupedRequirements, call.command, call.args,
                call.options, existing, CallPcwd)

\* The number of policy bind directives, '--bind' or '--ro-bind' after the
\* system section, whose operand is p
PolicyBindCount(v, p) ==
  LET o == OptionPart(v)
  IN Cardinality({i \in Positions(o, BIND) \cup Positions(o, RO_BIND) :
                    i >= FirstBind(v) /\ i < Len(o) /\ o[i + 1] = p})

HasRepeats(xs) == Cardinality(Range(xs)) < Len(xs)

\* C11: repeated entries, within a list or across allowPaths, readOnlyPaths
\* and the requirement lists, collapse: the read-write and read-only sets are
\* those of the same lists with the repeats removed and the lists reordered,
\* and each distinct resolved path has exactly one policy bind directive.
C11_DuplicatesCollapse ==
  Wrapped =>
    /\ RwEmitted(result.args) = RwEmitted(DedupedResult.args)
    /\ PolicyRoEmitted(result.args) = PolicyRoEmitted(DedupedResult.args)
    /\ \A p \in {CallWorkDir} \cup NormalizedAllow \cup NormalizedReadOnly :
         PolicyBindCount(result.args, p) = 1

C11_Witness ==
  /\ Wrapped
  /\ HasRepeats(AllowEntries)
  /\ HasRepeats(AllowEntries \o ReadOnlyEntries)
  /\ HasRepeats(getRequirementPaths(requirements))
  /\ DedupedConfig # config
  /\ DedupedRequirements # requirements
  /\ PolicyRoEmitted(result.args) # {}

(* C12 *)

\* An entry as it is bound: absolute entries as written, relative ones
\* against the working directory
ResolvedEntry(e) == IF isAbsolute(e) THEN e ELSE AgainstWorkDir(e)

\* The non-blank entries of a list, resolved, in the order of the list
RECURSIVE ResolvedInOrder(_)
ResolvedInOrder(es) ==
  IF es = <<>> THEN <<>>
  ELSE IF IsBlank(Head(es)) THEN ResolvedInOrder(Tail(es))
       ELSE <<ResolvedEntry(Head(es))>> \o ResolvedInOrder(Tail(es))

\* Working directory first, then allowPaths by first occurrence
ExpectedWritable == Fresh(<<CallWorkDir>> \o ResolvedInOrder(AllowEntries), {})

\* readOnlyPaths, authPaths, binaryPaths, runtimePaths by first occurrence,
\* without the writable paths
ExpectedReadOnly ==
  Fresh(ResolvedInOrder(OrElse(config.readOnlyPaths, <<>>))
        \o ResolvedInOrder(requirements.authPaths)
        \o ResolvedInOrder(requirements.binaryPaths)
        \o ResolvedInOrder(requirements.runtimePaths),
        Range(ExpectedWritable))

RECURSIVE Directives(_, _)
Directives(flag, paths) ==
  IF paths = <<>> THEN <<>>
  ELSE <<flag, Head(paths), Head(paths)>> \o Directives(flag, Tail(paths))

ExistingSystemDirs == SelectSeq(SYSTEM_DIRS, LAMBDA d : d \in existing)

ExpectedVector ==
  <<DIE_WITH_PARENT, DEV_FLAG, DEV_PATH, PROC_FLAG, PROC_PATH>>
  \o (IF config.network = "false" THEN <<UNSHARE_NET>> ELSE <<>>)
  \o Directives(RO_BIND, ExistingSystemDirs)
  \o Directives(BIND, ExpectedWritable)
  \o Directives(RO_BIND, ExpectedReadOnly)
  \o <<CHDIR, CallWorkDir, SEP, call.command>>
  \o call.args

\* C12: the wrapped argument vector is, in this order: the seed flags, the
\* optional '--unshare-net', the system read-only binds in list order, the
\* writable binds (working directory first, then allowPaths by first
\* occurrence), the read-only binds (readOnlyPaths, authPaths, binaryPaths,
\* runtimePaths by first occurrence), '--chdir' and the working directory,
\* '--', the command and its args; every writable bind precedes every policy
\* read-only bind and '--chdir' names the path of the first writable bind.
C12_SectionOrder ==
  Wrapped =>
    LET v == result.args
        o == OptionPart(v)
    IN /\ v = ExpectedVector
       /\ \A i \in Positions(o, BIND) :
            \A j \in Positions(o, RO_BIND) : j > FirstBind(v) => i < j
       /\ FirstBind(v) < Len(o)
       /\ ChdirTarget(v) = o[FirstBind(v) + 1]

C12_Witness ==
  /\ Wrapped
  /\ config.network = "false"
  /\ Len(ExpectedWritable) >= 3
  /\ Len(ExpectedReadOnly) >= 2
  /\ requirements.binaryPaths # <<>>
  /\ requirements.runtimePaths # <<>>
  /\ SystemRoEmitted(result.args) # {}
  /\ result.args = ExpectedVector

====
